---- MODULE Spec2Model ----
(***************************************************************************)
(* Cross-shard commit propagation of the sharded block executor:           *)
(* CrossShardCommitSender (dependency index + commit hook),                *)
(* CrossShardCommitReceiver (inbound loop) and the CrossShardStateView     *)
(* overlay the receiver publishes into.                                    *)
(***************************************************************************)
EXTENDS Integers, Sequences, FiniteSets, TLC

\* ------------------------------------------------------------------ bounds

\* Shards of the round (ShardId).
Shards == {0, 1, 2}

\* State keys, in the iteration order of the committed write set.
KeyOrder == <<"K1", "K2">>
Keys == {KeyOrder[i] : i \in DOMAIN KeyOrder}

\* Payloads a write op can carry.
Values == {"v1", "v2"}

\* Worker threads that call get_value concurrently.
NumReaders == 2

\* Number of write ops in one committed write set the senders are driven with
\* when they are checked on their own.
MaxWrites == 1

\* The round's layout: shard s owns the transactions
\* start_index .. start_index + num_txns - 1 of the block.
Layout ==
  [s \in Shards |->
     CASE s = 0 -> [start_index |-> 0, num_txns |-> 1]
       [] s = 1 -> [start_index |-> 1, num_txns |-> 2]
       [] OTHER -> [start_index |-> 3, num_txns |-> 1]]

TxnsOf(s) == {Layout[s].start_index + i : i \in 0..(Layout[s].num_txns - 1)}
Txns == UNION {TxnsOf(s) : s \in Shards}
ShardOf(t) == CHOOSE s \in Shards : t \in TxnsOf(s)

\* ------------------------------------------------------------------ values

\* Option<T>
None == <<>>
Some(x) == <<x>>
IsSome(o) == o # <<>>
Unwrap(o) == o[1]

\* WriteOp: a modification carrying bytes, or a deletion.
Modification(v) == [op |-> "Modification", data |-> v]
Deletion == [op |-> "Deletion", data |-> ""]
WriteOps == {Modification(v) : v \in Values} \cup {Deletion}

\* Committed write sets: partial maps StateKey -> WriteOp.
WriteSetsOver(keysets) == UNION {[D -> WriteOps] : D \in keysets}

\* ExecutionStatus of a committed transaction.
OutcomesOver(keysets) ==
  [status : {"Success", "SkipRest"}, write_set : WriteSetsOver(keysets)]
    \cup {[status |-> "Abort", write_set |-> <<>>]}

\* Outcomes whose write set touches at most one key: those of a full round.
Outcomes == OutcomesOver({{}} \cup {{k} : k \in Keys})

\* Outcomes of up to MaxWrites writes: those the senders alone are driven with.
SenderOutcomes == OutcomesOver({X \in SUBSET Keys : Cardinality(X) <= MaxWrites})

\* CrossShardMsg
RemoteTxnWriteMsg(k, w) == [type |-> "RemoteTxnWriteMsg", state_key |-> k, write_op |-> w]
StopMsg == [type |-> "StopMsg", state_key |-> "", write_op |-> None]

\* Overlay cell of the state view.
Unresolved == <<"Unresolved">>
ResolvedPresent(v) == <<"ResolvedPresent", v>>
ResolvedAbsent == <<"ResolvedAbsent">>

\* StorageLocation as the partitioner declares it.
Specific(k) == <<"Specific", k>>

VARIABLES
  sub_blocks,        \* planner input: per shard of the round, start_index and the txns' dependent edges
  consumer,          \* the shard whose receiver, state view and workers are followed
  dependent_edges,   \* per shard: CrossShardCommitSender.dependent_edges
  index_offset,      \* per shard: CrossShardCommitSender.index_offset
  chan,              \* per shard: its inbound mpsc channel
  rcv,               \* the consumer's receiver loop: "running", "exited" or "failed"
  stops_seen,        \* StopMsg the consumer's receiver has taken off its channel
  cells,             \* overlay cells of the consumer's state view
  readers,           \* per worker thread of the consumer: its get_value call
  committed,         \* transactions whose commit callback has run
  observed,          \* per txn: the outcome its commit callback inspected
  sent,              \* per txn: messages its commit callback sent, per destination
  panicked,          \* per shard: "no", or the panic that ended its commit hook
  stop_sent,         \* per shard: round teardown done
  threads,           \* per worker thread of a sender: its position inside the commit hook
  holding,           \* <<s, d, w>>: thread w holds the lock of message_txs[d] of shard s's sender
  receiver_dropped,  \* shards whose Receiver end of the inbound channel is gone
  senders_dropped    \* every Sender handle of the round's channels is gone

vars == <<sub_blocks, consumer, dependent_edges, index_offset, chan, rcv, stops_seen,
          cells, readers, committed, observed, sent, panicked, stop_sent,
          threads, holding, receiver_dropped, senders_dropped>>

\* What the actions of one component leave alone in the others.
sender_threads == <<threads, holding>>
closure == <<receiver_dropped, senders_dropped>>

\* ------------------------------------------------------------------ planner input

\* What the partitioner may declare: producer txn src feeds key to shard dst,
\* for the transactions of dst that come after src in the block.
Dependents(src, dst) == {t \in TxnsOf(dst) : t > src}

Declarations ==
  {e \in [src : Txns, key : Keys, dst : Shards] :
     e.dst # ShardOf(e.src) /\ Dependents(e.src, e.dst) # {}}

\* The partitioner guarantees one producer per declared (consumer, key).
OneProducer(D) ==
  \A e1 \in D, e2 \in D : (e1.dst = e2.dst /\ e1.key = e2.key) => e1.src = e2.src

\* Plans of at most one declaration.
SinglePlans == {{}} \cup {{e} : e \in Declarations}

\* Plans of at most two declarations.
Plans ==
  SinglePlans \cup
    {D \in {{e1, e2} : e1 \in Declarations, e2 \in Declarations} : OneProducer(D)}

\* Plans that break the guarantee: a consumer is fed one key by two producers.
DupPlans ==
  {D \in {{e1, e2} : e1 \in Declarations, e2 \in Declarations} : ~OneProducer(D)}

\* cross_shard_dependencies.dependent_edges() of txn t under plan D: one entry per
\* dependent transaction (TxnIdxWithShardId) and storage location.
RawEdges(D, t) ==
  UNION {{[txn_index |-> d, shard_id |-> e.dst, storage_location |-> Specific(e.key)] :
            d \in Dependents(t, e.dst)} : e \in {x \in D : x.src = t}}

SubBlockOf(D, s) ==
  [start_index |-> Layout[s].start_index,
   txns |-> [i \in 1..Layout[s].num_txns |-> RawEdges(D, Layout[s].start_index + i - 1)]]

\* Consumer side of the same plan: the keys shard s must wait on.
OverlayOf(D, s) == {e.key : e \in {x \in D : x.dst = s}}

\* ------------------------------------------------------------------ CrossShardCommitSender::new

into_state_key(storage_location) == storage_location[2]

\* storage_locations_to_target of one transaction.
StorageLocationsToTarget(txn_with_deps) ==
  [k \in {into_state_key(e.storage_location) : e \in txn_with_deps} |->
     {e.shard_id : e \in {x \in txn_with_deps : into_state_key(x.storage_location) = k}}]

\* A builder that inserts an entry for every transaction, empty or not.
NewKeepsEmpty(shard_id, sub_block) ==
  LET idxs == {sub_block.start_index + i - 1 : i \in DOMAIN sub_block.txns}
      deps(t) == sub_block.txns[t - sub_block.start_index + 1]
  IN [shard_id |-> shard_id,
      dependent_edges |-> [t \in idxs |-> StorageLocationsToTarget(deps(t))],
      index_offset |-> sub_block.start_index]

\* CrossShardCommitSender::new: the index holds storage_locations_to_target of
\* every transaction for which it is not empty.
New(shard_id, sub_block) ==
  LET idxs == {sub_block.start_index + i - 1 : i \in DOMAIN sub_block.txns}
      deps(t) == sub_block.txns[t - sub_block.start_index + 1]
  IN [shard_id |-> shard_id,
      dependent_edges |->
        [t \in {x \in idxs : deps(x) # {}} |-> StorageLocationsToTarget(deps(t))],
      index_offset |-> sub_block.start_index]

\* ------------------------------------------------------------------ initial state

NoOutcome == [status |-> "None", write_set |-> <<>>]
NoMsgs == [d \in Shards |-> <<>>]
Idle == [pc |-> "idle", key |-> "", ret |-> <<>>]

\* The round of the given sub-blocks: the sender of every shard is built from
\* its sub-block; the receiver, the state view (with the given overlay keys)
\* and the n reading worker threads are those of shard c.
InitBlocks(blocks, overlay, c, n) ==
  /\ sub_blocks = blocks
  /\ consumer = c
  /\ dependent_edges = [s \in DOMAIN blocks |-> New(s, sub_blocks[s]).dependent_edges]
  /\ index_offset = [s \in DOMAIN blocks |-> New(s, sub_blocks[s]).index_offset]
  /\ chan = [s \in DOMAIN blocks |-> <<>>]
  /\ rcv = "running"
  /\ stops_seen = 0
  /\ cells = [k \in overlay |-> Unresolved]
  /\ readers = [r \in 1..n |-> Idle]
  /\ committed = {}
  /\ observed = [t \in Txns |-> NoOutcome]
  /\ sent = [t \in Txns |-> NoMsgs]
  /\ panicked = [s \in DOMAIN blocks |-> "no"]
  /\ stop_sent = [s \in DOMAIN blocks |-> FALSE]
  /\ holding = {}
  /\ receiver_dropped = {}
  /\ senders_dropped = FALSE

\* The round of plan D among the shards S.
InitRound(S, D, c, n) ==
  /\ InitBlocks([s \in S |-> SubBlockOf(D, s)], OverlayOf(D, c), c, n)
  /\ threads = <<>>

\* A round of all the shards.
InitFor(D, c, n) == InitRound(Shards, D, c, n)

\* The shard followed is any that the plan makes a consumer (any shard at all
\* when the plan declares nothing).
ConsumersOf(D) == IF D = {} THEN Shards ELSE {e.dst : e \in D}

\* A round of at most one declaration, read by NumReaders worker threads.
Init == \E D \in SinglePlans : \E c \in ConsumersOf(D) : InitFor(D, c, NumReaders)

\* A round whose plan breaks the one-producer guarantee, read by one worker thread.
InitDup == \E D \in DupPlans : \E c \in ConsumersOf(D) : InitFor(D, c, 1)

\* The senders of a round of up to two declarations, on their own.
InitSender == \E D \in Plans : InitFor(D, 0, 0)

\* Plans in which one consumer is fed two keys, each by a different producer.
PairPlans ==
  {D \in Plans :
     /\ Cardinality(D) = 2
     /\ \A e1 \in D, e2 \in D :
          e1.dst = e2.dst /\ (e1 # e2 => (e1.key # e2.key /\ e1.src # e2.src))}

\* A round of such a plan, read by one worker thread.
InitPair == \E D \in PairPlans : \E c \in ConsumersOf(D) : InitFor(D, c, 1)

\* A round of two shards in which a transaction of one feeds the other.
TwoShards == {0, 1}

TwoShardPlans ==
  {D \in SinglePlans :
     D # {} /\ \A e \in D : ShardOf(e.src) \in TwoShards /\ e.dst \in TwoShards}

InitTwoShards ==
  \E D \in TwoShardPlans : \E c \in TwoShards : InitRound(TwoShards, D, c, NumReaders)

\* ------------------------------------------------------------------ CrossShardCommitSender

\* The lookup keyed on the local index, the offset forgotten.
GlobalIndexNoOffset(s, txn_idx) == txn_idx

\* let global_txn_idx = txn_idx + self.index_offset
GlobalIndex(s, txn_idx) == txn_idx + index_offset[s]

\* The hook without its contains_key guard.
HasEdgesAlways(s, global_txn_idx) == TRUE

\* self.dependent_edges.contains_key(&global_txn_idx)
HasEdges(s, global_txn_idx) == global_txn_idx \in DOMAIN dependent_edges[s]

\* A fan-out that ignores the edges: every written key goes to every shard.
RemoteUpdatesToAll(edges, write_set, dst) ==
  LET hit(k) == k \in DOMAIN write_set
      ks == SelectSeq(KeyOrder, hit)
  IN [i \in 1..Len(ks) |-> RemoteTxnWriteMsg(ks[i], Some(write_set[ks[i]]))]

\* The messages send_remote_update_for_success puts on the channel of shard dst:
\* one per key of the write set that has dst among its dependent shards, in the
\* write set's iteration order.
RemoteUpdates(edges, write_set, dst) ==
  LET hit(k) == k \in DOMAIN write_set /\ k \in DOMAIN edges /\ dst \in edges[k]
      ks == SelectSeq(KeyOrder, hit)
  IN [i \in 1..Len(ks) |-> RemoteTxnWriteMsg(ks[i], Some(write_set[ks[i]]))]

\* A channel of capacity one: a send waits while a message is in flight.
CanSendBounded(ch) == Len(ch) < 1

\* mpsc::Sender::send on the asynchronous channel: the message is buffered,
\* whatever the channel already holds; the sender never waits for the receiver.
CanSend(ch) == TRUE

\* The keys of the write set that have dependent shards, in iteration order:
\* those for which the inner loop of send_remote_update_for_success runs.
KeysToSend(edges, write_set) ==
  LET hit(k) == k \in DOMAIN write_set /\ k \in DOMAIN edges
  IN SelectSeq(KeyOrder, hit)

\* The sends that succeed before the first send to a shard whose Receiver is
\* gone: all those of the keys before bad_key, and of bad_key those to the
\* shards in reached (the dependent shards the HashSet's order puts first).
SentBeforeFailure(edges, write_set, bad_key, reached) ==
  LET ks == KeysToSend(edges, write_set)
      pos == CHOOSE i \in DOMAIN ks : ks[i] = bad_key
      done == [k \in {ks[i] : i \in 1..pos} |-> IF k = bad_key THEN reached ELSE edges[k]]
  IN [d \in Shards |-> RemoteUpdates(done, write_set, d)]

\* A send to a dropped Receiver that reports nothing: the message is lost.
SendRemoteUpdateForSuccessLossy(s, t, txn_idx, write_set) ==
  IF txn_idx \in DOMAIN dependent_edges[s]
  THEN LET out == [d \in Shards |-> RemoteUpdates(dependent_edges[s][txn_idx], write_set, d)]
       IN /\ chan' = [d \in DOMAIN chan |->
                        IF d \in receiver_dropped THEN chan[d] ELSE chan[d] \o out[d]]
          /\ sent' = [sent EXCEPT ![t] = [d \in Shards |->
                        IF d \in receiver_dropped THEN <<>> ELSE out[d]]]
          /\ UNCHANGED panicked
  ELSE /\ panicked' = [panicked EXCEPT ![s] = "unwrap"]
       /\ UNCHANGED <<chan, sent>>

\* send_remote_update_for_success: unwraps the edges of txn_idx, then sends;
\* a send to a shard whose Receiver is gone returns an error, which the unwrap
\* at line 133 turns into a panic after the sends that came before it.
SendRemoteUpdateForSuccess(s, t, txn_idx, write_set) ==
  IF txn_idx \in DOMAIN dependent_edges[s]
  THEN LET edges == dependent_edges[s][txn_idx]
           out == [d \in Shards |-> RemoteUpdates(edges, write_set, d)]
           ks == KeysToSend(edges, write_set)
           bad == {i \in DOMAIN ks : edges[ks[i]] \cap receiver_dropped # {}}
       IN IF bad = {}
          THEN /\ \A d \in DOMAIN chan : out[d] # <<>> => CanSend(chan[d])
               /\ chan' = [d \in DOMAIN chan |-> chan[d] \o out[d]]
               /\ sent' = [sent EXCEPT ![t] = out]
               /\ UNCHANGED panicked
          ELSE LET bad_key == ks[CHOOSE i \in bad : \A j \in bad : i <= j]
               IN \E reached \in SUBSET (edges[bad_key] \ receiver_dropped) :
                    LET part == SentBeforeFailure(edges, write_set, bad_key, reached)
                    IN /\ chan' = [d \in DOMAIN chan |-> chan[d] \o part[d]]
                       /\ sent' = [sent EXCEPT ![t] = part]
                       /\ panicked' = [panicked EXCEPT ![s] = "send"]
  ELSE /\ panicked' = [panicked EXCEPT ![s] = "unwrap"]
       /\ UNCHANGED <<chan, sent>>

\* A Success arm that passes the local index on to the lookup.
OnSuccessLocalIndex(s, t, global_txn_idx, write_set) ==
  SendRemoteUpdateForSuccess(s, t, global_txn_idx - index_offset[s], write_set)

\* ExecutionStatus::Success(output) => self.send_remote_update_for_success(..)
OnSuccess(s, t, global_txn_idx, write_set) ==
  SendRemoteUpdateForSuccess(s, t, global_txn_idx, write_set)

\* A skip-rest arm that sends nothing.
OnSkipRestNoSend(s, t, global_txn_idx, write_set) == UNCHANGED <<chan, sent, panicked>>

\* ExecutionStatus::SkipRest(output) => self.send_remote_update_for_success(..)
OnSkipRest(s, t, global_txn_idx, write_set) ==
  SendRemoteUpdateForSuccess(s, t, global_txn_idx, write_set)

\* The executor calls the commit hook once per transaction of the sub-block, with
\* the local index; a panic of the hook ends the shard's commit phase, and no
\* hook runs once the senders have been dropped.
Callable(s, txn_idx) ==
  /\ s \in DOMAIN sub_blocks
  /\ ~senders_dropped
  /\ txn_idx \in 0..(Len(sub_blocks[s].txns) - 1)
  /\ (sub_blocks[s].start_index + txn_idx) \notin committed
  /\ panicked[s] = "no"

\* The commit hook; t is the transaction's position in the block.
OnTransactionCommitted(s, txn_idx, outcome) ==
  LET t == sub_blocks[s].start_index + txn_idx
      global_txn_idx == GlobalIndex(s, txn_idx)
  IN /\ committed' = committed \cup {t}
     /\ IF HasEdges(s, global_txn_idx)
        THEN /\ observed' = [observed EXCEPT ![t] = outcome]
             /\ CASE outcome.status = "Success" ->
                       OnSuccess(s, t, global_txn_idx, outcome.write_set)
                  [] outcome.status = "Abort" ->
                       \* todo!("Handle abort case")
                       /\ panicked' = [panicked EXCEPT ![s] = "todo"]
                       /\ UNCHANGED <<chan, sent>>
                  [] outcome.status = "SkipRest" ->
                       OnSkipRest(s, t, global_txn_idx, outcome.write_set)
        ELSE UNCHANGED <<observed, chan, sent, panicked>>
     /\ UNCHANGED <<sub_blocks, consumer, dependent_edges, index_offset, rcv,
                    stops_seen, cells, readers, stop_sent>>
     /\ UNCHANGED <<sender_threads, closure>>

\* Round teardown: once the local commit phase has completed, one Stop on the
\* channel of every remote shard.
SendStop(s) ==
  /\ s \in DOMAIN sub_blocks
  /\ ~senders_dropped
  /\ ~stop_sent[s]
  /\ panicked[s] = "no"
  /\ TxnsOf(s) \subseteq committed
  /\ stop_sent' = [stop_sent EXCEPT ![s] = TRUE]
  /\ chan' = [d \in DOMAIN chan |->
                IF d = s \/ d \in receiver_dropped THEN chan[d] ELSE Append(chan[d], StopMsg)]
  /\ UNCHANGED <<sub_blocks, consumer, dependent_edges, index_offset, rcv, stops_seen,
                 cells, readers, committed, observed, sent, panicked>>
  /\ UNCHANGED <<sender_threads, closure>>

\* ------------------------------------------------------------------ concurrent commit hooks

\* Worker threads of one shard's executor that call the commit hook concurrently.
Workers == {"w1", "w2"}

\* A round in which the first shard owns two transactions, so that two of its
\* threads can be inside the hook at once, each feeding a later shard.
WorkerLayout ==
  [s \in Shards |->
     CASE s = 0 -> [start_index |-> 0, num_txns |-> 2]
       [] s = 1 -> [start_index |-> 2, num_txns |-> 1]
       [] OTHER -> [start_index |-> 3, num_txns |-> 1]]

WorkerTxnsOf(s) == {WorkerLayout[s].start_index + i : i \in 0..(WorkerLayout[s].num_txns - 1)}
WorkerDependents(src, dst) == {t \in WorkerTxnsOf(dst) : t > src}

\* The shard whose threads are followed.
PoolShard == CHOOSE s \in Shards : Cardinality(WorkerTxnsOf(s)) > 1

WorkerDeclarations ==
  {e \in [src : WorkerTxnsOf(PoolShard), key : Keys, dst : Shards \ {PoolShard}] :
     WorkerDependents(e.src, e.dst) # {}}

\* Plans in which each of the two transactions feeds some shard.
WorkerPlans ==
  {D \in SUBSET WorkerDeclarations :
     /\ Cardinality(D) \in 2..3
     /\ OneProducer(D)
     /\ \A t \in WorkerTxnsOf(PoolShard) : \E e \in D : e.src = t}

WorkerRawEdges(D, t) ==
  UNION {{[txn_index |-> d, shard_id |-> e.dst, storage_location |-> Specific(e.key)] :
            d \in WorkerDependents(t, e.dst)} : e \in {x \in D : x.src = t}}

WorkerSubBlockOf(D, s) ==
  [start_index |-> WorkerLayout[s].start_index,
   txns |-> [i \in 1..WorkerLayout[s].num_txns |->
               WorkerRawEdges(D, WorkerLayout[s].start_index + i - 1)]]

\* A thread outside the hook.
IdleThread(s) ==
  [pc |-> "idle", shard |-> s, t |-> 0, idx |-> 0, write_set |-> <<>>,
   keys |-> <<>>, rest |-> {}, dst |-> s]

InitWorkers ==
  \E D \in WorkerPlans :
    /\ InitBlocks([s \in Shards |-> WorkerSubBlockOf(D, s)], {}, PoolShard, 0)
    /\ threads = [w \in Workers |-> IdleThread(PoolShard)]

\* The thread's position at the first send for the keys ks: the dependent
\* shards of a key are visited in the HashSet's order, which is any order.
AtNextSend(th, edges, ks) ==
  IF ks = <<>>
  THEN {IdleThread(th.shard)}
  ELSE {[th EXCEPT !.pc = "lock", !.keys = ks, !.dst = d, !.rest = edges[ks[1]] \ {d}] :
          d \in edges[ks[1]]}

\* A thread enters on_transaction_committed and runs it up to its first lock().
HookEnter(w, txn_idx, outcome) ==
  LET s == threads[w].shard
      t == sub_blocks[s].start_index + txn_idx
      global_txn_idx == GlobalIndex(s, txn_idx)
  IN /\ threads[w].pc = "idle"
     /\ Callable(s, txn_idx)
     /\ committed' = committed \cup {t}
     /\ IF HasEdges(s, global_txn_idx)
        THEN /\ observed' = [observed EXCEPT ![t] = outcome]
             /\ IF outcome.status = "Abort"
                THEN /\ panicked' = [panicked EXCEPT ![s] = "todo"]
                     /\ UNCHANGED threads
                ELSE IF global_txn_idx \in DOMAIN dependent_edges[s]
                THEN LET edges == dependent_edges[s][global_txn_idx]
                         th == [threads[w] EXCEPT !.t = t, !.idx = global_txn_idx,
                                                  !.write_set = outcome.write_set]
                     IN /\ \E nxt \in AtNextSend(th, edges, KeysToSend(edges, outcome.write_set)) :
                             threads' = [threads EXCEPT ![w] = nxt]
                        /\ UNCHANGED panicked
                ELSE /\ panicked' = [panicked EXCEPT ![s] = "unwrap"]
                     /\ UNCHANGED threads
        ELSE UNCHANGED <<observed, panicked, threads>>
     /\ UNCHANGED <<sub_blocks, consumer, dependent_edges, index_offset, chan, rcv,
                    stops_seen, cells, readers, sent, stop_sent, holding, closure>>

\* One lock for the whole sender: taken only when no thread holds any handle.
LockSenderWide(w) ==
  /\ threads[w].pc = "lock"
  /\ \A h \in holding : h[1] # threads[w].shard
  /\ holding' = holding \cup {<<threads[w].shard, threads[w].dst, w>>}
  /\ threads' = [threads EXCEPT ![w].pc = "send"]
  /\ UNCHANGED <<sub_blocks, consumer, dependent_edges, index_offset, chan, rcv, stops_seen,
                 cells, readers, committed, observed, sent, panicked, stop_sent, closure>>

\* self.message_txs[*dependent_shard_id].lock(): the thread gets the handle of
\* its destination once no other thread of the sender holds that one.
Lock(w) ==
  /\ threads[w].pc = "lock"
  /\ \A h \in holding : ~(h[1] = threads[w].shard /\ h[2] = threads[w].dst)
  /\ holding' = holding \cup {<<threads[w].shard, threads[w].dst, w>>}
  /\ threads' = [threads EXCEPT ![w].pc = "send"]
  /\ UNCHANGED <<sub_blocks, consumer, dependent_edges, index_offset, chan, rcv, stops_seen,
                 cells, readers, committed, observed, sent, panicked, stop_sent, closure>>

\* .send(message) under the guard, which is dropped at the end of the
\* statement; the loops then move to the next dependent shard or key.
SendUnlock(w) ==
  LET th == threads[w]
      k == Head(th.keys)
      message == RemoteTxnWriteMsg(k, Some(th.write_set[k]))
      edges == dependent_edges[th.shard][th.idx]
  IN /\ th.pc = "send"
     /\ holding' = holding \ {<<th.shard, th.dst, w>>}
     /\ IF th.dst \in receiver_dropped
        THEN \* the send returns an error and the unwrap panics
             /\ panicked' = [panicked EXCEPT ![th.shard] = "send"]
             /\ threads' = [threads EXCEPT ![w] = IdleThread(th.shard)]
             /\ UNCHANGED <<chan, sent>>
        ELSE /\ CanSend(chan[th.dst])
             /\ chan' = [chan EXCEPT ![th.dst] = Append(@, message)]
             /\ sent' = [sent EXCEPT ![th.t][th.dst] = Append(@, message)]
             /\ UNCHANGED panicked
             /\ IF th.rest # {}
                THEN \E d \in th.rest :
                       threads' = [threads EXCEPT ![w] = [th EXCEPT !.pc = "lock", !.dst = d,
                                                                    !.rest = th.rest \ {d}]]
                ELSE \E nxt \in AtNextSend(th, edges, Tail(th.keys)) :
                       threads' = [threads EXCEPT ![w] = nxt]
     /\ UNCHANGED <<sub_blocks, consumer, dependent_edges, index_offset, rcv, stops_seen,
                    cells, readers, committed, observed, stop_sent, closure>>

\* ------------------------------------------------------------------ CrossShardStateView

LocalValue == Some("v0")

CellValue(cell) == IF cell[1] = "ResolvedPresent" THEN Some(cell[2]) ELSE None

Resolution(value) == IF IsSome(value) THEN ResolvedPresent(Unwrap(value)) ELSE ResolvedAbsent

\* Broadcast on the cell's condition: every thread waiting on k is woken.
NotifyAll(rs, k) ==
  [r \in DOMAIN rs |->
     IF rs[r].pc = "waiting" /\ rs[r].key = k
     THEN [rs[r] EXCEPT !.pc = "woken"]
     ELSE rs[r]]

\* A view that lets a later write replace a resolved cell.
SetValueOverwrite(k, value) ==
  IF k \in DOMAIN cells
  THEN /\ cells' = [cells EXCEPT ![k] = Resolution(value)]
       /\ readers' = NotifyAll(readers, k)
       /\ UNCHANGED rcv
  ELSE /\ rcv' = "failed"
       /\ UNCHANGED <<cells, readers>>

\* A view that drops a later write without reporting it.
SetValueIgnoreSecond(k, value) ==
  IF k \in DOMAIN cells /\ cells[k] = Unresolved
  THEN /\ cells' = [cells EXCEPT ![k] = Resolution(value)]
       /\ readers' = NotifyAll(readers, k)
       /\ UNCHANGED rcv
  ELSE UNCHANGED <<cells, readers, rcv>>

\* set_value(key, value): the first write resolves the cell and wakes its waiters;
\* anything else is a fatal logic error that leaves the cell as it is.
SetValue(k, value) ==
  IF k \in DOMAIN cells /\ cells[k] = Unresolved
  THEN /\ cells' = [cells EXCEPT ![k] = Resolution(value)]
       /\ readers' = NotifyAll(readers, k)
       /\ UNCHANGED rcv
  ELSE /\ rcv' = "failed"
       /\ UNCHANGED <<cells, readers>>

\* A view that makes every read wait for a resolution, overlay key or not.
GetValueEntryWaitsAlways(k) ==
  IF k \in DOMAIN cells /\ cells[k] # Unresolved
  THEN [pc |-> "done", key |-> k, ret |-> Some(CellValue(cells[k]))]
  ELSE [pc |-> "waiting", key |-> k, ret |-> <<>>]

\* A view with a nullable cell: not yet resolved reads as absent.
GetValueEntryNullable(k) ==
  IF k \notin DOMAIN cells
  THEN [pc |-> "done", key |-> k, ret |-> Some(LocalValue)]
  ELSE [pc |-> "done", key |-> k, ret |-> Some(CellValue(cells[k]))]

\* What get_value(k) does on entry: not an overlay key -> local storage;
\* resolved -> its value; unresolved -> the thread waits on the cell.
GetValueEntry(k) ==
  IF k \notin DOMAIN cells
  THEN [pc |-> "done", key |-> k, ret |-> Some(LocalValue)]
  ELSE IF cells[k] = Unresolved
  THEN [pc |-> "waiting", key |-> k, ret |-> <<>>]
  ELSE [pc |-> "done", key |-> k, ret |-> Some(CellValue(cells[k]))]

\* A worker thread that is not inside a call (it never made one, or took the
\* result of its last one) calls get_value(k).
GetValue(r, k) ==
  /\ readers[r].pc \in {"idle", "done"}
  /\ readers' = [readers EXCEPT ![r] = GetValueEntry(k)]
  /\ UNCHANGED <<sub_blocks, consumer, dependent_edges, index_offset, chan, rcv,
                 stops_seen, cells, committed, observed, sent, panicked, stop_sent>>
  /\ UNCHANGED <<sender_threads, closure>>

\* get_value, after the wake-up: the thread re-reads the cell and returns it.
GetValueWake(r) ==
  /\ readers[r].pc = "woken"
  /\ readers' = [readers EXCEPT ![r] =
       IF cells[readers[r].key] = Unresolved
       THEN [@ EXCEPT !.pc = "waiting"]
       ELSE [@ EXCEPT !.pc = "done", !.ret = Some(CellValue(cells[readers[r].key]))]]
  /\ UNCHANGED <<sub_blocks, consumer, dependent_edges, index_offset, chan, rcv,
                 stops_seen, cells, committed, observed, sent, panicked, stop_sent>>
  /\ UNCHANGED <<sender_threads, closure>>

\* ------------------------------------------------------------------ CrossShardCommitReceiver

\* WriteOp::as_state_value: a deletion has no state value.
as_state_value(w) == IF w.op = "Deletion" THEN None ELSE Some(w.data)

\* write_op.and_then(|w| w.as_state_value())
ReceivedValue(write_op) == IF IsSome(write_op) THEN as_state_value(Unwrap(write_op)) ELSE None

\* A loop that no message ends.
BreaksNever(msg) == FALSE

\* The match arm that leaves the loop.
Breaks(msg) == msg.type = "StopMsg"

\* A loop that takes a RemoteWrite off the channel without publishing it.
ReceiverStepNoPublish ==
  /\ rcv = "running"
  /\ chan[consumer] # <<>>
  /\ LET msg == Head(chan[consumer])
     IN /\ chan' = [chan EXCEPT ![consumer] = Tail(chan[consumer])]
        /\ IF msg.type = "RemoteTxnWriteMsg"
           THEN UNCHANGED <<cells, readers, rcv, stops_seen>>
           ELSE /\ stops_seen' = stops_seen + 1
                /\ rcv' = IF Breaks(msg) THEN "exited" ELSE "running"
                /\ UNCHANGED <<cells, readers>>
  /\ UNCHANGED <<sub_blocks, consumer, dependent_edges, index_offset, committed,
                 observed, sent, panicked, stop_sent>>
  /\ UNCHANGED <<sender_threads, closure>>

\* message_rx.recv(): a buffered message if there is one; an error once the
\* channel is empty and every Sender is gone; otherwise the thread waits.
RecvReturns == chan[consumer] # <<>> \/ senders_dropped

\* A loop that takes the closed channel for the end of the round.
ReceiverStepExitOnClose ==
  /\ rcv = "running"
  /\ RecvReturns
  /\ IF chan[consumer] = <<>>
     THEN /\ rcv' = "exited"
          /\ UNCHANGED <<chan, cells, readers, stops_seen>>
     ELSE LET msg == Head(chan[consumer])
          IN /\ chan' = [chan EXCEPT ![consumer] = Tail(chan[consumer])]
             /\ IF msg.type = "RemoteTxnWriteMsg"
                THEN /\ SetValue(msg.state_key, ReceivedValue(msg.write_op))
                     /\ UNCHANGED stops_seen
                ELSE /\ stops_seen' = stops_seen + 1
                     /\ rcv' = IF Breaks(msg) THEN "exited" ELSE "running"
                     /\ UNCHANGED <<cells, readers>>
  /\ UNCHANGED <<sub_blocks, consumer, dependent_edges, index_offset, committed,
                 observed, sent, panicked, stop_sent>>
  /\ UNCHANGED <<sender_threads, closure>>

\* One iteration of the loop of CrossShardCommitReceiver::start; the unwrap at
\* line 41 turns the error of a closed channel into a panic.
ReceiverStep ==
  /\ rcv = "running"
  /\ RecvReturns
  /\ IF chan[consumer] = <<>>
     THEN /\ rcv' = "failed"
          /\ UNCHANGED <<chan, cells, readers, stops_seen>>
     ELSE LET msg == Head(chan[consumer])
          IN /\ chan' = [chan EXCEPT ![consumer] = Tail(chan[consumer])]
             /\ IF msg.type = "RemoteTxnWriteMsg"
                THEN /\ SetValue(msg.state_key, ReceivedValue(msg.write_op))
                     /\ UNCHANGED stops_seen
                ELSE /\ stops_seen' = stops_seen + 1
                     /\ rcv' = IF Breaks(msg) THEN "exited" ELSE "running"
                     /\ UNCHANGED <<cells, readers>>
  /\ UNCHANGED <<sub_blocks, consumer, dependent_edges, index_offset, committed,
                 observed, sent, panicked, stop_sent>>
  /\ UNCHANGED <<sender_threads, closure>>

\* ------------------------------------------------------------------ channel closure

\* The owner of shard d's Receiver drops it; start() borrows the followed
\* shard's Receiver for as long as its loop runs.
DropReceiver(d) ==
  /\ d \in DOMAIN sub_blocks
  /\ d \notin receiver_dropped
  /\ d = consumer => rcv # "running"
  /\ receiver_dropped' = receiver_dropped \cup {d}
  /\ UNCHANGED <<sub_blocks, consumer, dependent_edges, index_offset, chan, rcv, stops_seen,
                 cells, readers, committed, observed, sent, panicked, stop_sent,
                 sender_threads, senders_dropped>>

\* Every CrossShardCommitSender of the round, and with it every Sender handle,
\* is dropped.
DropSenders ==
  /\ ~senders_dropped
  /\ senders_dropped' = TRUE
  /\ UNCHANGED <<sub_blocks, consumer, dependent_edges, index_offset, chan, rcv, stops_seen,
                 cells, readers, committed, observed, sent, panicked, stop_sent,
                 sender_threads, receiver_dropped>>

\* ------------------------------------------------------------------ specification

Commit ==
  \E s \in Shards, i \in 0..1 :
    Callable(s, i) /\ \E o \in Outcomes : OnTransactionCommitted(s, i, o)

Next ==
  \/ Commit
  \/ \E s \in Shards : SendStop(s)
  \/ ReceiverStep
  \/ \E r \in DOMAIN readers, k \in Keys : GetValue(r, k)
  \/ \E r \in DOMAIN readers : GetValueWake(r)

Spec == Init /\ [][Next]_vars

SpecDup == InitDup /\ [][Next]_vars

\* The commit hooks alone, driven with every outcome of up to MaxWrites writes.
NextSender ==
  \E s \in Shards, i \in 0..1 :
    Callable(s, i) /\ \E o \in SenderOutcomes : OnTransactionCommitted(s, i, o)

SpecSender == InitSender /\ [][NextSender]_vars

\* Outcomes the concurrent hooks are driven with: SkipRest takes the path of
\* Success through the hook and is left out.
WorkerOutcomes == {o \in SenderOutcomes : o.status # "SkipRest"}

\* The worker threads of one sender, each inside or outside a commit hook.
NextWorkers ==
  \E w \in DOMAIN threads :
    \/ \E i \in 0..1, o \in WorkerOutcomes : HookEnter(w, i, o)
    \/ Lock(w)
    \/ SendUnlock(w)

SpecWorkers == InitWorkers /\ [][NextWorkers]_vars

\* The receiver runs on a dedicated thread and a woken worker thread is
\* scheduled again: neither waits forever once it can step.
Progress ==
  /\ WF_vars(ReceiverStep)
  /\ \A r \in 1..NumReaders : WF_vars(GetValueWake(r))

\* The senders and the followed receiver of a round in which either end of a
\* channel may be dropped at any time.
InitClosure == \E D \in SinglePlans : \E c \in Shards : InitFor(D, c, 0)

NextClosure ==
  \/ Commit
  \/ \E s \in Shards : SendStop(s)
  \/ ReceiverStep
  \/ DropSenders
  \/ \E d \in Shards : DropReceiver(d)

SpecClosure == InitClosure /\ [][NextClosure]_vars

SpecPair == InitPair /\ [][Next]_vars

SpecTwoShards == InitTwoShards /\ [][Next]_vars /\ Progress

\* ------------------------------------------------------------------ properties

\* The partitioner declared that transaction t feeds key k to shard b.
DeclaredTo(t, k, b) ==
  LET sb == sub_blocks[ShardOf(t)]
  IN \E e \in sb.txns[t - sb.start_index + 1] :
       e.shard_id = b /\ e.storage_location = Specific(k)

HasDeclarations(t) == \E k \in Keys, b \in Shards : DeclaredTo(t, k, b)

\* The receiver can take no further message: it left its loop, or it has
\* drained its channel.
ReceiverDone == rcv # "running" \/ chan[consumer] = <<>>

Waiting(r, k) == readers[r].pc = "waiting" /\ readers[r].key = k

CommittedOk(t) == observed[t].status \in {"Success", "SkipRest"}

\* Number of RemoteWrite messages for key k in a sequence of messages.
CountFor(msgs, k) ==
  Cardinality({i \in DOMAIN msgs : msgs[i].type = "RemoteTxnWriteMsg" /\ msgs[i].state_key = k})

\* C1: if producer T, declared to feed K to the consumer, commits successfully
\* with a write of value v to K, then once the receiver can take no further
\* message the consumer's cell for K is ResolvedPresent(v) and no reader of K
\* is still blocked.
C1_CommittedWriteResolvesRead ==
  \A t \in Txns, k \in Keys :
    ( /\ DeclaredTo(t, k, consumer)
      /\ observed[t].status = "Success"
      /\ k \in DOMAIN observed[t].write_set
      /\ observed[t].write_set[k].op = "Modification"
      /\ ReceiverDone )
    => /\ cells[k] = ResolvedPresent(observed[t].write_set[k].data)
       /\ \A r \in DOMAIN readers : ~Waiting(r, k)

\* C2: a commit with an Abort outcome of a transaction with declared edges puts
\* a RemoteWrite with an absent value for every declared key on the channel of
\* every declared consumer shard.
C2_AbortNotifiesEveryDependent ==
  \A t \in Txns, k \in Keys, b \in Shards :
    (observed[t].status = "Abort" /\ DeclaredTo(t, k, b))
    => \E i \in DOMAIN sent[t][b] : sent[t][b][i] = RemoteTxnWriteMsg(k, None)

\* C3: if producer T, declared to feed K to the consumer, commits (success or
\* skip-rest) without K in its write set, then once the receiver can take no
\* further message the consumer's cell for K is ResolvedAbsent and no reader of
\* K is still blocked.
C3_UnwrittenKeyResolvesAbsent ==
  \A t \in Txns, k \in Keys :
    ( /\ DeclaredTo(t, k, consumer)
      /\ CommittedOk(t)
      /\ k \notin DOMAIN observed[t].write_set
      /\ ReceiverDone )
    => /\ cells[k] = ResolvedAbsent
       /\ \A r \in DOMAIN readers : ~Waiting(r, k)

\* C4: a success or skip-rest commit of a transaction with a Dependency Index
\* entry sends, for every declared (key, consumer shard) pair, exactly one
\* RemoteWrite for that key to that shard, carrying the committed write when the
\* key is in the write set and an absent value when it is not.
C4_ExactlyOneRemoteWritePerEdge ==
  \A t \in Txns, k \in Keys, b \in Shards :
    (CommittedOk(t) /\ DeclaredTo(t, k, b))
    => /\ CountFor(sent[t][b], k) = 1
       /\ \E i \in DOMAIN sent[t][b] :
            sent[t][b][i] =
              RemoteTxnWriteMsg(k, IF k \in DOMAIN observed[t].write_set
                                   THEN Some(observed[t].write_set[k])
                                   ELSE None)

\* C5: whenever the receiver loop has exited, every overlay cell declared as a
\* dependency into its shard is resolved.
C5_ExitOnlyWhenAllResolved ==
  rcv = "exited" => \A k \in DOMAIN cells : cells[k] # Unresolved

\* C6: the receiver loop exits only after one Stop per remote shard.
C6_ExitAfterExpectedStops ==
  rcv = "exited" => stops_seen = Cardinality(Shards \ {consumer})

\* C7: in a round with no cross-shard dependencies no commit hook sends a
\* message or fails, whatever the outcomes, and no get_value call blocks.
NoDependencies ==
  /\ \A s \in Shards : DOMAIN dependent_edges[s] = {}
  /\ DOMAIN cells = {}

C7_NoDependenciesNoTraffic ==
  NoDependencies =>
    /\ \A t \in Txns, d \in Shards : sent[t][d] = <<>>
    /\ \A d \in Shards : \A i \in DOMAIN chan[d] : chan[d][i].type # "RemoteTxnWriteMsg"
    /\ \A s \in Shards : panicked[s] = "no"
    /\ \A r \in DOMAIN readers : readers[r].pc \notin {"waiting", "woken"}

C7_Witness ==
  /\ NoDependencies
  /\ committed = Txns
  /\ \A s \in Shards : stop_sent[s]
  /\ \E r \in DOMAIN readers : readers[r].pc = "done" /\ readers[r].ret = Some(LocalValue)

\* C8: the commit hook of local index i on a shard with offset o uses the
\* Dependency Index entry of global index i + o: a transaction's callback
\* inspects the outcome exactly when the partitioner declared edges for that
\* transaction, and sends to each shard exactly the written keys that
\* transaction declared for it.
C8_LookupAtGlobalIndex ==
  \A t \in committed :
    /\ (observed[t] # NoOutcome) <=> HasDeclarations(t)
    /\ CommittedOk(t) =>
         \A d \in Shards :
           {sent[t][d][i].state_key : i \in DOMAIN sent[t][d]}
             = {k \in DOMAIN observed[t].write_set : DeclaredTo(t, k, d)}

\* A transaction at local index 1 of a shard with offset 1 has committed and
\* sent its own edge, while the shard's index also holds an entry under 1.
C8_Witness ==
  \E s \in Shards :
    /\ index_offset[s] = 1
    /\ 1 \in DOMAIN dependent_edges[s]
    /\ 2 \in DOMAIN dependent_edges[s]
    /\ dependent_edges[s][1] # dependent_edges[s][2]
    /\ 2 \in committed
    /\ \E d \in Shards : sent[2][d] # <<>>

\* The receiver takes a RemoteWrite for key k off its channel in this step.
TakesRemoteWrite(k) ==
  /\ rcv = "running"
  /\ chan[consumer] # <<>>
  /\ Head(chan[consumer]).type = "RemoteTxnWriteMsg"
  /\ Head(chan[consumer]).state_key = k
  /\ chan'[consumer] = Tail(chan[consumer])

Returned(r, k) == readers[r].pc = "done" /\ readers[r].key = k

\* C9: when the receiver takes the RemoteWrite for an unresolved key on which N
\* threads are blocked, the cell is resolved and all N are released in that
\* step; no thread is left blocked on a resolved cell, and the threads that
\* return from the same cell return the same value.
C9_AllWaitersReleased ==
  /\ [][\A k \in DOMAIN cells :
          (TakesRemoteWrite(k) /\ cells[k] = Unresolved)
          => /\ cells'[k] # Unresolved
             /\ \A r \in DOMAIN readers :
                  Waiting(r, k) => (readers'[r].pc = "woken" /\ readers'[r].key = k)]_vars
  /\ [](\A k \in DOMAIN cells :
          /\ cells[k] # Unresolved => \A r \in DOMAIN readers : ~Waiting(r, k)
          /\ \A r1 \in DOMAIN readers, r2 \in DOMAIN readers :
               (Returned(r1, k) /\ Returned(r2, k)) => readers[r1].ret = readers[r2].ret)

\* Every worker thread, two at least, was blocked on the same key when a
\* producer's value resolved it, and all have been woken.
C9_Witness ==
  \E k \in DOMAIN cells :
    /\ cells[k][1] = "ResolvedPresent"
    /\ Cardinality(DOMAIN readers) >= 2
    /\ \A r \in DOMAIN readers : readers[r].pc = "woken" /\ readers[r].key = k

\* C10: a resolved overlay cell never changes again, and every get_value call
\* that returns from it returns the value the cell holds.
C10_ResolvedCellImmutable ==
  /\ [][\A k \in DOMAIN cells : cells[k] # Unresolved => cells'[k] = cells[k]]_vars
  /\ [](\A k \in DOMAIN cells, r \in DOMAIN readers :
          Returned(r, k) => (cells[k] # Unresolved /\ readers[r].ret = Some(CellValue(cells[k]))))

\* A second RemoteWrite for a resolved key reached the receiver, the cell kept
\* its first resolution, and a call made afterwards returned it.
C10_Witness ==
  \E k \in DOMAIN cells, r \in DOMAIN readers :
    /\ rcv = "failed"
    /\ cells[k][1] = "ResolvedPresent"
    /\ Returned(r, k)
    /\ readers[r].ret = Some(Some(cells[k][2]))
    /\ \E t \in Txns :
         /\ DeclaredTo(t, k, consumer)
         /\ CommittedOk(t)
         /\ k \in DOMAIN observed[t].write_set
         /\ observed[t].write_set[k] # Modification(cells[k][2])
         /\ sent[t][consumer] # <<>>

\* C11: a RemoteWrite the receiver takes for a key whose cell is already
\* resolved is a fatal logic error: the step fails the receiver and leaves every
\* cell, the resolved one included, exactly as it was.
C11_SecondWriteIsFatal ==
  [][\A k \in DOMAIN cells :
       (TakesRemoteWrite(k) /\ cells[k] # Unresolved)
       => (rcv' = "failed" /\ cells' = cells)]_vars

\* Two producers each sent a RemoteWrite for the same key to the consumer; the
\* second one failed the receiver and the cell holds what the first one wrote.
C11_Witness ==
  \E k \in DOMAIN cells, t1 \in Txns, t2 \in Txns :
    /\ t1 # t2
    /\ rcv = "failed"
    /\ stops_seen = 0
    /\ CountFor(sent[t1][consumer], k) = 1
    /\ CountFor(sent[t2][consumer], k) = 1
    /\ \/ cells[k] = Resolution(as_state_value(observed[t1].write_set[k]))
       \/ cells[k] = Resolution(as_state_value(observed[t2].write_set[k]))
    /\ observed[t1].write_set[k] # observed[t2].write_set[k]

\* Every shard of the round has sent its Stop, and every declared producer
\* committed with a write to the key it feeds.
RoundTxns == UNION {TxnsOf(s) : s \in DOMAIN sub_blocks}

TornDownAfterWrites ==
  /\ \A s \in DOMAIN sub_blocks : stop_sent[s]
  /\ \A t \in RoundTxns, k \in Keys, b \in DOMAIN sub_blocks :
       DeclaredTo(t, k, b) => (CommittedOk(t) /\ k \in DOMAIN observed[t].write_set)

\* The followed shard's receiver has left its loop on a Stop, nothing is left
\* on its channel, every overlay cell holds what its producer wrote and no
\* reader is blocked.
CleanlyTerminated ==
  /\ rcv = "exited"
  /\ chan[consumer] = <<>>
  /\ \A r \in DOMAIN readers : readers[r].pc \notin {"waiting", "woken"}
  /\ \A t \in RoundTxns, k \in DOMAIN cells :
       DeclaredTo(t, k, consumer)
       => /\ k \in DOMAIN observed[t].write_set
          /\ cells[k] = Resolution(as_state_value(observed[t].write_set[k]))

\* C12: in a two-shard round whose declared producer commits with a write to
\* the key it feeds, once both shards have sent their Stop the receiver of
\* either shard terminates with every RemoteWrite delivered, the consumer's
\* cell resolved to the written value and no reader blocked.
C12_TwoShardRoundCompletes == TornDownAfterWrites ~> CleanlyTerminated

\* Both shards sent their Stop, the consumer's receiver left its loop, and a
\* reader that was blocked on the fed key has been woken by the written value.
C12_Witness ==
  /\ DOMAIN sub_blocks = TwoShards
  /\ TornDownAfterWrites
  /\ rcv = "exited"
  /\ chan[consumer] = <<>>
  /\ \E r \in DOMAIN readers, k \in DOMAIN cells :
       /\ readers[r].pc = "woken"
       /\ readers[r].key = k
       /\ cells[k][1] = "ResolvedPresent"

\* C13: whatever the state of the destination's receiver, channel and readers,
\* every commit hook the executor may call can run to completion, with any
\* outcome.
C13_CommitHookNeverBlocks ==
  \A s \in Shards, i \in 0..1 :
    Callable(s, i) => \A o \in Outcomes : ENABLED OnTransactionCommitted(s, i, o)

\* A hook has put its RemoteWrite behind a message the consumer's receiver had
\* not taken yet, while a reader of the consumer is blocked.
C13_Witness ==
  /\ rcv = "running"
  /\ Len(chan[consumer]) >= 2
  /\ chan[consumer][Len(chan[consumer])].type = "RemoteTxnWriteMsg"
  /\ \E r \in DOMAIN readers : readers[r].pc = "waiting"

\* What the plan calls for when transaction t commits with write_set: for shard
\* d, one RemoteWrite per written key that t is declared to feed to d, in the
\* write set's order, carrying the write op.
DeclaredSends(t, write_set, d) ==
  LET hit(k) == k \in DOMAIN write_set /\ DeclaredTo(t, k, d)
      ks == SelectSeq(KeyOrder, hit)
  IN [i \in 1..Len(ks) |-> RemoteTxnWriteMsg(ks[i], Some(write_set[ks[i]]))]

\* C14: the messages a commit with a write set sends are determined by the
\* transaction and the write set alone: a Success and a SkipRest commit of the
\* same transaction with the same write set send the same RemoteWrites to the
\* same shards.
C14_SkipRestSendsAsSuccess ==
  \A t \in committed :
    (CommittedOk(t) /\ HasDeclarations(t))
    => \A d \in Shards : sent[t][d] = DeclaredSends(t, observed[t].write_set, d)

\* A SkipRest commit and a Success commit have each sent a RemoteWrite.
C14_Witness ==
  \E t1 \in committed, t2 \in committed :
    /\ observed[t1].status = "SkipRest"
    /\ observed[t2].status = "Success"
    /\ \E d \in Shards : sent[t1][d] # <<>>
    /\ \E d \in Shards : sent[t2][d] # <<>>

\* The raw dependent edges the partitioner attached to transaction t.
RawEdgesOf(t) ==
  LET sb == sub_blocks[ShardOf(t)] IN sb.txns[t - sb.start_index + 1]

C16_OnlyUnresolvedOverlaySuspends ==
  \A r \in DOMAIN readers :
    /\ (readers[r].pc # "idle" /\ readers[r].key \notin DOMAIN cells)
       => (readers[r].pc = "done" /\ readers[r].ret = Some(LocalValue))
    /\ readers[r].pc = "waiting"
       => (readers[r].key \in DOMAIN cells /\ cells[readers[r].key] = Unresolved)
    /\ readers[r].pc = "woken"
       => (readers[r].key \in DOMAIN cells /\ cells[readers[r].key] # Unresolved)

\* One thread is suspended on an unresolved overlay key while another has
\* read a key outside the overlay from local storage.
C16_Witness ==
  \E r1 \in DOMAIN readers, r2 \in DOMAIN readers :
    /\ readers[r1].pc = "waiting"
    /\ cells[readers[r1].key] = Unresolved
    /\ readers[r2].pc = "done"
    /\ readers[r2].key \notin DOMAIN cells
    /\ readers[r2].ret = Some(LocalValue)

\* C17: a get_value call on an overlay key returns only from a resolved cell,
\* with that cell's resolution; while the cell is Unresolved the caller stays
\* suspended and is told neither an absence nor the local-storage value.
C17_NoReturnWhileUnresolved ==
  [][\A r \in DOMAIN readers :
       /\ ( /\ readers'[r] # readers[r]
            /\ readers'[r].pc = "done"
            /\ readers'[r].key \in DOMAIN cells )
          => /\ cells[readers'[r].key] # Unresolved
             /\ readers'[r].ret = Some(CellValue(cells[readers'[r].key]))
       /\ (readers[r].pc = "waiting" /\ cells'[readers[r].key] = Unresolved)
          => readers'[r] = readers[r]]_vars

\* The producer's RemoteWrite for a key is on the consumer's channel, not yet
\* taken, while a reader of that key is suspended on the unresolved cell.
C17_Witness ==
  \E r \in DOMAIN readers, k \in DOMAIN cells :
    /\ Waiting(r, k)
    /\ cells[k] = Unresolved
    /\ rcv = "running"
    /\ \E i \in DOMAIN chan[consumer] :
         chan[consumer][i].type = "RemoteTxnWriteMsg" /\ chan[consumer][i].state_key = k

HoldersOf(s, d) == {w \in DOMAIN threads : <<s, d, w>> \in holding}

\* C18: the send handle of a destination is held by at most one thread of the
\* sender; a thread holds a handle exactly while it is at the one send it
\* locked it for, so the handle is free again after that send; and a thread at
\* lock() can proceed whenever no thread holds the handle of its own
\* destination, whatever handles of other destinations are held.
C18_PerDestinationExclusion ==
  /\ \A s \in Shards, d \in Shards : Cardinality(HoldersOf(s, d)) <= 1
  /\ \A s \in Shards, d \in Shards, w \in DOMAIN threads :
       <<s, d, w>> \in holding
       <=> (threads[w].pc = "send" /\ threads[w].shard = s /\ threads[w].dst = d)
  /\ \A w \in DOMAIN threads :
       (threads[w].pc = "lock" /\ HoldersOf(threads[w].shard, threads[w].dst) = {})
       => ENABLED Lock(w)

\* Two threads of one sender hold the handles of two different destinations
\* at the same time, each about to send.
C18_Witness ==
  \E w1 \in DOMAIN threads, w2 \in DOMAIN threads :
    /\ w1 # w2
    /\ threads[w1].shard = threads[w2].shard
    /\ threads[w1].pc = "send"
    /\ threads[w2].pc = "send"
    /\ threads[w1].dst # threads[w2].dst
    /\ \E d \in Shards : chan[d] # <<>>

\* A resolved cell holds the resolution of what the key's declared producer
\* committed for that key.
ResolvedCellsHoldProducerWrite ==
  \A k \in DOMAIN cells :
    cells[k] # Unresolved
    => \E t \in Txns :
         /\ DeclaredTo(t, k, consumer)
         /\ CommittedOk(t)
         /\ k \in DOMAIN observed[t].write_set
         /\ cells[k] = Resolution(as_state_value(observed[t].write_set[k]))

\* Every transaction has committed, every shard has sent its Stop and the
\* receiver can take no further message.
RoundOver ==
  /\ committed = Txns
  /\ \A s \in DOMAIN sub_blocks : stop_sent[s]
  /\ ReceiverDone

\* C19: the final resolution of the overlay cells is a function of the
\* committed write sets alone: in every interleaving of the producers' commits
\* and of the messages on the inbound channel, a resolved cell holds what its
\* producer committed, and once the round is over every declared key that its
\* producer wrote is resolved.
C19_FinalResolutionIndependentOfOrder ==
  /\ ResolvedCellsHoldProducerWrite
  /\ RoundOver
     => \A t \in Txns, k \in DOMAIN cells :
          (DeclaredTo(t, k, consumer) /\ k \in DOMAIN observed[t].write_set)
          => cells[k] # Unresolved

\* C20: the receiver leaves its loop normally only by taking a Stop; when its
\* channel is empty and every Sender is gone it fails; and a commit that has a
\* RemoteWrite to send to a shard whose Receiver is gone fails the sender and
\* puts nothing on that shard's channel.
C20_ClosureIsFatal ==
  [][/\ (rcv = "running" /\ rcv' = "exited")
        => (chan[consumer] # <<>> /\ Head(chan[consumer]) = StopMsg)
     /\ (rcv = "running" /\ rcv' # "running" /\ chan[consumer] = <<>>)
        => (senders_dropped /\ rcv' = "failed")
     /\ \A t \in committed' \ committed, d \in receiver_dropped :
          ( /\ observed'[t].status \in {"Success", "SkipRest"}
            /\ DeclaredSends(t, observed'[t].write_set, d) # <<>> )
          => (panicked'[ShardOf(t)] = "send" /\ chan'[d] = chan[d])]_vars

\* The followed receiver failed on a channel closed before any Stop, and a
\* commit hook failed on a send to a shard whose Receiver was gone.
C20_Witness ==
  /\ rcv = "failed"
  /\ stops_seen = 0
  /\ senders_dropped
  /\ chan[consumer] = <<>>
  /\ \E s \in Shards : panicked[s] = "send"

\* Transaction t's entry of its shard's Dependency Index lists shard d as a
\* consumer of key k.
IndexLists(t, k, d) ==
  LET edges == dependent_edges[ShardOf(t)]
  IN t \in DOMAIN edges /\ k \in DOMAIN edges[t] /\ d \in edges[t][k]

\* C21: after any sequence of commit hooks, every message on the channel of a
\* shard d is a RemoteWrite (never a Stop) of a key that some committed
\* transaction wrote and whose index entry lists d for that key, carrying that
\* write; and a hook sends nothing for a key, or to a shard, its entry does not
\* list.
C21_NoWriteLeaksToUndeclaredShard ==
  /\ \A d \in Shards : \A i \in DOMAIN chan[d] :
       /\ chan[d][i].type = "RemoteTxnWriteMsg"
       /\ \E t \in committed :
            /\ IndexLists(t, chan[d][i].state_key, d)
            /\ chan[d][i].state_key \in DOMAIN observed[t].write_set
            /\ chan[d][i].write_op = Some(observed[t].write_set[chan[d][i].state_key])
  /\ \A t \in Txns, d \in Shards : \A i \in DOMAIN sent[t][d] :
       IndexLists(t, sent[t][d][i].state_key, d)

\* A committed write set held a key the transaction's entry lists for one
\* shard only, which alone got the RemoteWrite, and another held a key its
\* transaction's entry does not list, for which nothing was sent.
C21_Witness ==
  /\ \E t \in committed, k \in Keys, d1 \in Shards, d2 \in Shards :
       /\ CommittedOk(t)
       /\ k \in DOMAIN observed[t].write_set
       /\ IndexLists(t, k, d1)
       /\ d2 \notin {d1, ShardOf(t)}
       /\ ~IndexLists(t, k, d2)
       /\ sent[t][d1] # <<>>
       /\ sent[t][d2] = <<>>
  /\ \E t \in committed, k \in Keys :
       /\ CommittedOk(t)
       /\ t \in DOMAIN dependent_edges[ShardOf(t)]
       /\ k \in DOMAIN observed[t].write_set
       /\ k \notin DOMAIN dependent_edges[ShardOf(t)][t]
       /\ \A d \in Shards : CountFor(sent[t][d], k) = 0

\* C22: no commit hook ever fails on the lookup of its transaction's edges, in
\* any order of the commit calls, and the Dependency Index never changes after
\* construction.
C22_LookupNeverMissing ==
  /\ [][dependent_edges' = dependent_edges]_vars
  /\ [](\A s \in Shards : panicked[s] # "unwrap")

\* Every transaction has committed; a hook at a non-zero offset looked its
\* edges up and sent, and a transaction without an entry committed with a write.
C22_Witness ==
  /\ \A s \in Shards : panicked[s] = "no"
  /\ committed = Txns
  /\ \E t \in Txns, d \in Shards :
       index_offset[ShardOf(t)] > 0 /\ sent[t][d] # <<>>
  /\ \E s \in Shards : TxnsOf(s) \ DOMAIN dependent_edges[s] # {}

====
